---- MODULE Spec2Model ----
(***************************************************************************)
(* A model of parse_newick.py: the delimiter scanner (_find_closing), the  *)
(* node field extractor (_parts_of_subtree), the sibling splitter          *)
(* (_next_node_end, _split_nodes) and the recursive tree builder           *)
(* (parse_newick_subtree, parse_newick).                                   *)
(*                                                                         *)
(* A Python str is a sequence of one-character strings.  Indices are the   *)
(* code's 0-based indices: At(s, i) is s[i], Slice(s, a, b) is s[a:b].     *)
(* A call that may raise returns a record with a field ok; ok = FALSE is   *)
(* the ValueError of str.index ("substring not found").                    *)
(***************************************************************************)
EXTENDS Integers, Sequences, FiniteSets, TLC

VARIABLES
    newick,          \* the text handed to the operation under study
    start,           \* the start offset handed to _find_closing
    pair,            \* the delimiter pair handed to _find_closing
    called,          \* which function has been entered ("none" before)
    out,             \* what a pure function returned
    feature_parser,  \* the caller's feature_parser argument
    stack,           \* the frames of parse_newick_subtree, innermost last
    log,             \* the callback calls made so far, in order
    result,          \* what the top-level call returned or raised
    frames,          \* the call stack, one frame per function call in progress
    ret,             \* the value the last call to return has returned
    steps            \* the number of statements executed so far

vars == <<newick, start, pair, called, out, feature_parser, stack, log, result,
          frames, ret, steps>>

parser_vars == <<feature_parser, stack, log, result>>

parser_vars_but_result == <<feature_parser, stack, log>>

step_vars == <<frames, ret, steps>>

(***************************************************************************)
(* Bounds and alphabets                                                    *)
(***************************************************************************)
MaxPure == 5

Whitespace == {" "}

PARENS == <<"(", ")">>
BRACKETS == <<"[", "]">>

StringsOver(alphabet, n) == UNION {[1..k -> alphabet] : k \in 0..n}

(***************************************************************************)
(* Python str primitives                                                   *)
(***************************************************************************)
Min(a, b) == IF a < b THEN a ELSE b
Max(a, b) == IF a < b THEN b ELSE a

At(s, i) == s[i + 1]

\* s[a:b] for 0 <= a, 0 <= b (Python clamps both to len(s))
Slice(s, a, b) ==
    LET hi == Min(b, Len(s))
    IN  IF a >= hi THEN <<>> ELSE SubSeq(s, a + 1, hi)

\* s[a:]
SliceFrom(s, a) == Slice(s, a, Len(s))

\* s[:-1]
DropLast(s) == IF Len(s) = 0 THEN <<>> ELSE SubSeq(s, 1, Len(s) - 1)

startswith(s, c) == Len(s) > 0 /\ s[1] = c
endswith(s, c) == Len(s) > 0 /\ s[Len(s)] = c

\* str.find(c, from): the least index >= from holding c, or -1
find(s, c, from) ==
    LET hits == {i \in from..(Len(s) - 1) : At(s, i) = c}
    IN  IF hits = {} THEN 0 - 1
        ELSE CHOOSE i \in hits : \A j \in hits : i <= j

\* str.index(c, from): as find, but raises ValueError when there is none
index(s, c, from) ==
    LET i == find(s, c, from)
    IN  [ok |-> i >= 0, val |-> IF i >= 0 THEN i ELSE 0]

contains(s, c) == \E i \in 1..Len(s) : s[i] = c

RECURSIVE lstrip(_)
lstrip(s) ==
    IF Len(s) > 0 /\ s[1] \in Whitespace THEN lstrip(Tail(s)) ELSE s

RECURSIVE rstrip(_)
rstrip(s) ==
    IF Len(s) > 0 /\ s[Len(s)] \in Whitespace THEN rstrip(DropLast(s)) ELSE s

strip(s) == lstrip(rstrip(s))

\* str.split(c, maxsplit=1) on a string that holds c
split1(s, c) ==
    LET i == find(s, c, 0)
    IN  <<Slice(s, 0, i), SliceFrom(s, i + 1)>>

(***************************************************************************)
(* _find_closing                                                           *)
(***************************************************************************)
\* faulty variant, kept for comparison: the first closer after from, nested
\* pairs not skipped
_find_closing_first(string, from, pr) == index(string, pr[2], from)

RECURSIVE _find_closing(_, _, _)
_find_closing(string, from, pr) ==
    LET opening == pr[1]
        closing == pr[2]
        next_closing == index(string, closing, from)
        has_next_opening == find(string, opening, from) # 0 - 1
        next_opening == find(string, opening, from)
    IN  IF ~next_closing.ok THEN next_closing
        ELSE IF ~has_next_opening THEN next_closing
        ELSE IF next_closing.val < next_opening THEN next_closing
        ELSE LET skip == _find_closing(string, next_opening + 1, pr)
             IN  IF ~skip.ok THEN skip
                 ELSE _find_closing(string, skip.val + 1, pr)

\* faulty variant, kept for comparison: the end of the text closes what
\* nothing else closes
_find_closing_parenthesis_lenient(string) ==
    LET r == _find_closing(string, 1, PARENS)
    IN  IF r.ok THEN r ELSE [ok |-> TRUE, val |-> Len(string)]

_find_closing_parenthesis(string) == _find_closing(string, 1, PARENS)

(***************************************************************************)
(* _parts_of_subtree                                                       *)
(***************************************************************************)
\* the fields of nw once the end of its children block is known (has_children
\* tells whether it has one)
fields_of(nw, has_children, children_end) ==
    LET children == IF has_children THEN Slice(nw, 1, children_end) ELSE <<>>
        rest0 == IF has_children THEN SliceFrom(nw, children_end + 1) ELSE nw
        has_comment == contains(rest0, "[")
        rest1 == IF has_comment THEN split1(rest0, "[")[1] ELSE rest0
        comment == IF has_comment THEN DropLast(split1(rest0, "[")[2]) ELSE <<>>
        has_length == contains(rest1, ":")
        label == IF has_length THEN split1(rest1, ":")[1] ELSE rest1
        length == IF has_length THEN split1(rest1, ":")[2] ELSE <<>>
    IN  [ok |-> TRUE, children |-> children, label |-> strip(label),
         length |-> length, comment |-> comment]

_parts_of_subtree(nw) ==
    LET has_children == startswith(nw, "(")
        children_end == IF has_children THEN _find_closing_parenthesis(nw)
                        ELSE [ok |-> TRUE, val |-> 0]
    IN  IF ~children_end.ok
        THEN [ok |-> FALSE, children |-> <<>>, label |-> <<>>,
              length |-> <<>>, comment |-> <<>>]
        ELSE fields_of(nw, has_children, children_end.val)

(***************************************************************************)
(* _next_node_end                                                          *)
(***************************************************************************)
grouping(char) == IF char = "(" THEN PARENS ELSE BRACKETS

\* the while loop of _next_node_end, entered with current_end
RECURSIVE _next_node_end_loop(_, _)
_next_node_end_loop(nodes_str, current_end) ==
    IF ~(current_end < Len(nodes_str))
    THEN [ok |-> TRUE, val |-> Len(nodes_str) - 1]
    ELSE LET char == At(nodes_str, current_end)
         IN  IF char \in {"(", "["}
             THEN LET closer == _find_closing(nodes_str, current_end + 1,
                                              grouping(char))
                  IN  IF ~closer.ok THEN closer
                      ELSE _next_node_end_loop(nodes_str, closer.val)
             ELSE IF char = ","
             THEN [ok |-> TRUE, val |-> current_end - 1]
             ELSE _next_node_end_loop(nodes_str, current_end + 1)

\* faulty variant, kept for comparison: the first comma ends the node,
\* enclosed or not
_next_node_end_first_comma(raw) ==
    LET nodes_str == strip(raw)
        comma == find(nodes_str, ",", 0)
    IN  [ok |-> TRUE,
         val |-> IF comma >= 0 THEN comma - 1 ELSE Len(nodes_str) - 1]

_next_node_end(raw) ==
    LET nodes_str == strip(raw)
        skipped == IF startswith(nodes_str, "(")
                   THEN _find_closing_parenthesis(nodes_str)
                   ELSE [ok |-> TRUE, val |-> 0]
    IN  IF ~skipped.ok THEN skipped
        ELSE _next_node_end_loop(nodes_str, skipped.val)

(***************************************************************************)
(* _split_nodes                                                            *)
(***************************************************************************)
RECURSIVE _split_nodes(_)
_split_nodes(raw) ==
    LET nodes_str == strip(raw)
    IN  IF nodes_str = <<>> THEN [ok |-> TRUE, val |-> <<>>]
        ELSE IF nodes_str = <<",">> THEN [ok |-> TRUE, val |-> <<<<>>, <<>>>>]
        ELSE IF startswith(nodes_str, ",")
        THEN LET tl == _split_nodes(SliceFrom(nodes_str, 1))
             IN  IF ~tl.ok THEN tl
                 ELSE [ok |-> TRUE, val |-> <<<<>>>> \o tl.val]
        ELSE IF endswith(nodes_str, ",")
        THEN LET hd == _split_nodes(DropLast(nodes_str))
             IN  IF ~hd.ok THEN hd
                 ELSE [ok |-> TRUE, val |-> hd.val \o <<<<>>>>]
        ELSE LET next_node_end == _next_node_end(nodes_str)
             IN  IF ~next_node_end.ok THEN [ok |-> FALSE, val |-> <<>>]
                 ELSE LET node == Slice(nodes_str, 0, next_node_end.val + 1)
                          rest0 == lstrip(SliceFrom(nodes_str,
                                                    next_node_end.val + 1))
                          rest == IF startswith(rest0, ",")
                                  THEN SliceFrom(rest0, 1) ELSE rest0
                          tl == _split_nodes(rest)
                      IN  IF ~tl.ok THEN tl
                          ELSE [ok |-> TRUE, val |-> <<node>> \o tl.val]

(***************************************************************************)
(* The pure functions applied to bounded inputs                            *)
(***************************************************************************)
PureAlphabet == {"(", ")", "[", "]", ",", ":", " ", "a"}

NoOut == [ok |-> TRUE, val |-> <<>>]

\* what a call returns: an index, a list of strings or a tree
IntValue(n) == [int |-> n, list |-> <<>>, tree |-> <<>>]
ListValue(l) == [int |-> 0, list |-> l, tree |-> <<>>]
TreeValue(tr) == [int |-> 0, list |-> <<>>, tree |-> <<tr>>]

NoResult == [status |-> "none", tree |-> <<>>, error |-> "none",
             at |-> <<>>, text |-> <<>>, calls |-> 0]

InitPure ==
    /\ newick \in StringsOver(PureAlphabet, MaxPure)
    /\ start = 0
    /\ pair = PARENS
    /\ called = "none"
    /\ out = NoOut
    /\ feature_parser = "_simple_feature"
    /\ stack = <<>>
    /\ log = <<>>
    /\ result = NoResult
    /\ frames = <<>>
    /\ ret = IntValue(0)
    /\ steps = 0

\* _find_closing(newick, start, pair), for any start and either pair
FindClosing ==
    /\ called = "none"
    /\ called' = "_find_closing"
    /\ \E st \in 0..MaxPure, pr \in {PARENS, BRACKETS} :
          /\ start' = st
          /\ pair' = pr
          /\ out' = _find_closing(newick, st, pr)
    /\ UNCHANGED <<newick, parser_vars, step_vars>>

\* _parts_of_subtree(newick)
PartsOfSubtree ==
    /\ called = "none"
    /\ called' = "_parts_of_subtree"
    /\ out' = _parts_of_subtree(newick)
    /\ UNCHANGED <<newick, start, pair, parser_vars, step_vars>>

\* _next_node_end(newick)
NextNodeEnd ==
    /\ called = "none"
    /\ called' = "_next_node_end"
    /\ out' = _next_node_end(newick)
    /\ UNCHANGED <<newick, start, pair, parser_vars, step_vars>>

\* _split_nodes(newick)
SplitNodes ==
    /\ called = "none"
    /\ called' = "_split_nodes"
    /\ out' = _split_nodes(newick)
    /\ UNCHANGED <<newick, start, pair, parser_vars, step_vars>>

NextPure ==
    \/ FindClosing
    \/ PartsOfSubtree
    \/ NextNodeEnd
    \/ SplitNodes

SpecPure == InitPure /\ [][NextPure]_vars

(***************************************************************************)
(* The callbacks                                                           *)
(***************************************************************************)
\* the value of a string of decimal digits
RECURSIVE DigitsValue(_)
DigitsValue(s) ==
    IF s = <<>> THEN 0
    ELSE 10 * DigitsValue(DropLast(s)) + (IF s[Len(s)] = "1" THEN 1 ELSE 0)

\* float(text) over the model's alphabet: surrounding whitespace is ignored and
\* what is left must be a non-empty string of digits, else ValueError
float(text) ==
    LET t == strip(text)
    IN  IF t # <<>> /\ \A i \in 1..Len(t) : t[i] = "1"
        THEN [ok |-> TRUE, val |-> DigitsValue(t)]
        ELSE [ok |-> FALSE, val |-> 0]

\* the distance is None (none = TRUE) or a number
_simple_distance(dist) ==
    IF dist # <<>>
    THEN LET f == float(dist)
         IN  [ok |-> f.ok, val |-> [none |-> FALSE, num |-> f.val]]
    ELSE [ok |-> TRUE, val |-> [none |-> TRUE, num |-> 0]]

_simple_feature(feat) == [ok |-> TRUE, val |-> feat]

\* a caller's feature parser that raises on text it cannot decode: here, on
\* every non-empty comment
strict_feature(feat) == [ok |-> feat = <<>>, val |-> feat]

call_feature_parser(mode, feat) ==
    IF mode = "_simple_feature" THEN _simple_feature(feat)
    ELSE strict_feature(feat)

\* a caller's aggregator that keeps all it is given
aggregator(label, children, distance, features) ==
    [label |-> label, children |-> children, distance |-> distance,
     features |-> features]

(***************************************************************************)
(* parse_newick_subtree and parse_newick, one step of the code per action  *)
(***************************************************************************)
MaxLen == 4

ParserAlphabet == {"(", ")", "[", "]", ",", ":", ";", " ", "a", "1"}

\* longer texts, for nesting the exhaustive texts are too short to reach
Samples ==
    { <<"(", "a", ",", "(", "a", ",", "1", ")", ")", ";">>,
      <<"(", "(", "a", ":", "1", ",", ")", "a", ",", "a", ":", "a", "[", "a", "]", ")">>,
      <<"(", "a", ",", "(", ",", "a", "[", ")", ")", ";">>,
      <<"(", "a", "(", "a", "[", ")", "a", ",", "(", "(", "a", ")", ")", ")">>,
      <<"(", " ", "a", " ", ",", ",", "(", "a", ")", "a", ":", "1", "1", " ", ")", "a", ";">>,
      <<"(", "(", "a", "[", "a", "]", ")", ",", "a", ":", "a", ")", ";">> }

Texts == StringsOver(ParserAlphabet, MaxLen) \cup Samples

Frame(text, path) ==
    [newick |-> text, path |-> path, pc |-> "parts",
     label |-> <<>>, distance_str |-> <<>>, comment_str |-> <<>>,
     todo |-> <<>>, children |-> <<>>, features |-> <<>>,
     distance |-> [none |-> TRUE, num |-> 0]]

Top == stack[Len(stack)]

SetTop(stk, f) == [stk EXCEPT ![Len(stk)] = f]

Event(fn, f, ok, arg) ==
    [fn |-> fn, path |-> f.path, text |-> f.newick, ok |-> ok, arg |-> arg]

\* faulty variant, kept for comparison: the distance is parsed before the
\* feature
next_step_distance_first(pc) ==
    CASE pc = "children" -> "distance"
      [] pc = "distance" -> "features"
      [] pc = "features" -> "aggregate"

\* the order of the statements that follow the children in parse_newick_subtree
next_step(pc) ==
    CASE pc = "children" -> "features"
      [] pc = "features" -> "distance"
      [] pc = "distance" -> "aggregate"

\* faulty variant, kept for comparison: the last sibling is lost
siblings_but_last(children_str) ==
    LET r == _split_nodes(children_str)
    IN  [ok |-> r.ok, val |-> DropLast(r.val)]

\* the sibling texts the list comprehension iterates over
siblings(children_str) == _split_nodes(children_str)

\* faulty variant, kept for comparison: the newest child is put first
collect_reversed(children, tree) == <<tree>> \o children

\* the list the comprehension builds, one result after the other
collect(children, tree) == Append(children, tree)

\* faulty variant, kept for comparison: the caller catches the exception and
\* goes on without the child
unwind_one(stk) == SubSeq(stk, 1, Len(stk) - 1)

\* an exception is caught nowhere: it leaves every frame
unwind(stk) == <<>>

\* the call raised error while it was in frame f, after ncalls callback calls
Raised(error, f, ncalls) ==
    [status |-> "error", tree |-> <<>>, error |-> error,
     at |-> f.path, text |-> f.newick, calls |-> ncalls]

Returned(tree, ncalls) ==
    [status |-> "ok", tree |-> <<tree>>, error |-> "none",
     at |-> <<>>, text |-> <<>>, calls |-> ncalls]

\* faulty variant, kept for comparison: a terminator anywhere in the text will
\* do
has_terminator_anywhere(text) == contains(text, ";")

\* the test parse_newick makes of its text
has_terminator(text) == endswith(text, ";")

Init ==
    /\ newick \in Texts
    /\ feature_parser \in {"_simple_feature", "strict_feature"}
    /\ start = 0
    /\ pair = PARENS
    /\ called = "none"
    /\ out = NoOut
    /\ stack = <<>>
    /\ log = <<>>
    /\ result = NoResult
    /\ frames = <<>>
    /\ ret = IntValue(0)
    /\ steps = 0

\* parse_newick(newick, aggregator, ...)
ParseNewick ==
    /\ called = "none"
    /\ called' = "parse_newick"
    /\ IF ~has_terminator(newick)
       THEN /\ result' = Raised("FormatError", Frame(newick, <<>>), Len(log))
            /\ stack' = stack
       ELSE /\ stack' = <<Frame(DropLast(newick), <<>>)>>
            /\ result' = result
    /\ UNCHANGED <<step_vars, newick, start, pair, out, feature_parser, log>>

\* parse_newick_subtree(newick, aggregator, ...)
ParseNewickSubtree ==
    /\ called = "none"
    /\ called' = "parse_newick_subtree"
    /\ stack' = <<Frame(newick, <<>>)>>
    /\ UNCHANGED <<step_vars, newick, start, pair, out, feature_parser, log, result>>

\* _parts_of_subtree(newick.strip()) and _split_nodes(children_str)
Decompose ==
    /\ stack # <<>>
    /\ Top.pc = "parts"
    /\ LET parts == _parts_of_subtree(strip(Top.newick))
           sibs == siblings(parts.children)
       IN  IF ~parts.ok \/ ~sibs.ok
           THEN /\ result' = Raised("ValueError", Top, Len(log))
                /\ stack' = unwind(stack)
           ELSE /\ stack' = SetTop(stack,
                       [Top EXCEPT !.label = parts.label,
                                   !.distance_str = parts.length,
                                   !.comment_str = parts.comment,
                                   !.todo = sibs.val,
                                   !.pc = IF sibs.val = <<>>
                                          THEN next_step("children")
                                          ELSE "children"])
                /\ result' = result
    /\ UNCHANGED <<step_vars, newick, start, pair, called, out, feature_parser, log>>

\* the recursive call for the next child_str
Descend ==
    /\ stack # <<>>
    /\ Top.pc = "children"
    /\ Top.todo # <<>>
    /\ stack' = Append(SetTop(stack, [Top EXCEPT !.todo = Tail(Top.todo)]),
                       Frame(Head(Top.todo),
                             Append(Top.path, Len(Top.children) + 1)))
    /\ UNCHANGED <<step_vars, newick, start, pair, called, out, feature_parser, log, result>>

\* features = feature_parser(comment_str)
CallFeatureParser ==
    /\ stack # <<>>
    /\ Top.pc = "features"
    /\ LET r == call_feature_parser(feature_parser, Top.comment_str)
       IN  /\ log' = Append(log, Event("feature_parser", Top, r.ok,
                                       <<Top.comment_str>>))
           /\ IF ~r.ok
              THEN /\ result' = Raised("feature_parser", Top, Len(log) + 1)
                   /\ stack' = unwind(stack)
              ELSE /\ stack' = SetTop(stack,
                          [Top EXCEPT !.features = r.val,
                                      !.pc = next_step("features")])
                   /\ result' = result
    /\ UNCHANGED <<step_vars, newick, start, pair, called, out, feature_parser>>

\* distance = distance_parser(distance_str)
CallDistanceParser ==
    /\ stack # <<>>
    /\ Top.pc = "distance"
    /\ LET r == _simple_distance(Top.distance_str)
       IN  /\ log' = Append(log, Event("distance_parser", Top, r.ok,
                                       <<Top.distance_str>>))
           /\ IF ~r.ok
              THEN /\ result' = Raised("distance_parser", Top, Len(log) + 1)
                   /\ stack' = unwind(stack)
              ELSE /\ stack' = SetTop(stack,
                          [Top EXCEPT !.distance = r.val,
                                      !.pc = next_step("distance")])
                   /\ result' = result
    /\ UNCHANGED <<step_vars, newick, start, pair, called, out, feature_parser>>

\* return aggregator(label, children, distance, features)
CallAggregator ==
    /\ stack # <<>>
    /\ Top.pc = "aggregate"
    /\ LET tree == aggregator(Top.label, Top.children, Top.distance,
                              Top.features)
           rest == SubSeq(stack, 1, Len(stack) - 1)
       IN  /\ log' = Append(log, Event("aggregator", Top, TRUE,
                                       <<Top.label, Top.children, Top.distance,
                                         Top.features>>))
           /\ IF rest = <<>>
              THEN /\ stack' = rest
                   /\ result' = Returned(tree, Len(log) + 1)
              ELSE LET parent == rest[Len(rest)]
                       kids == collect(parent.children, tree)
                   IN  /\ stack' = SetTop(rest,
                              [parent EXCEPT !.children = kids,
                                             !.pc = IF parent.todo = <<>>
                                                    THEN next_step("children")
                                                    ELSE "children"])
                       /\ result' = result
    /\ UNCHANGED <<step_vars, newick, start, pair, called, out, feature_parser>>

Next ==
    \/ ParseNewick
    \/ ParseNewickSubtree
    \/ Decompose
    \/ Descend
    \/ CallFeatureParser
    \/ CallDistanceParser
    \/ CallAggregator

Spec == Init /\ [][Next]_vars

(***************************************************************************)
(* The whole call as one function of the text                              *)
(***************************************************************************)
RECURSIVE parse_newick_subtree(_, _)
RECURSIVE parse_children(_, _)

\* the list comprehension: the children in order, or the first error met
parse_children(child_strs, mode) ==
    IF child_strs = <<>> THEN [ok |-> TRUE, error |-> "none", val |-> <<>>]
    ELSE LET first == parse_newick_subtree(Head(child_strs), mode)
         IN  IF ~first.ok THEN [ok |-> FALSE, error |-> first.error, val |-> <<>>]
             ELSE LET others == parse_children(Tail(child_strs), mode)
                  IN  IF ~others.ok THEN others
                      ELSE [ok |-> TRUE, error |-> "none",
                            val |-> <<first.val>> \o others.val]

parse_newick_subtree(text, mode) ==
    LET parts == _parts_of_subtree(strip(text))
        child_strs == _split_nodes(parts.children)
        failed(e) == [ok |-> FALSE, error |-> e, val |-> <<>>]
    IN  IF ~parts.ok \/ ~child_strs.ok THEN failed("ValueError")
        ELSE LET children == parse_children(child_strs.val, mode)
                 features == call_feature_parser(mode, parts.comment)
                 distance == _simple_distance(parts.length)
             IN  IF ~children.ok THEN children
                 ELSE IF ~features.ok THEN failed("feature_parser")
                 ELSE IF ~distance.ok THEN failed("distance_parser")
                 ELSE [ok |-> TRUE, error |-> "none",
                       val |-> aggregator(parts.label, children.val,
                                           distance.val, features.val)]

parse_newick(text, mode) ==
    IF ~endswith(text, ";")
    THEN [ok |-> FALSE, error |-> "FormatError", val |-> <<>>]
    ELSE parse_newick_subtree(DropLast(text), mode)

\* what the call made must end in
Expected ==
    IF called = "parse_newick" THEN parse_newick(newick, feature_parser)
    ELSE parse_newick_subtree(newick, feature_parser)

(***************************************************************************)
(* The same functions one statement at a time, on an explicit call stack   *)
(***************************************************************************)
MaxStep == 4

StepAlphabet == {"(", ")", "[", "]", ",", ":", ";", " ", "a"}

\* a new frame of fn: arg is its string argument, i its offset (start or
\* current_end), pr its delimiter pair; s, acc, kids and parts are its locals
Call(fn, arg, i, pr) ==
    [fn |-> fn, arg |-> arg, s |-> arg, i |-> i, pr |-> pr, pc |-> "begin",
     acc |-> <<>>, kids |-> <<>>,
     parts |-> fields_of(<<>>, FALSE, 0), feat |-> <<>>,
     dist |-> [none |-> TRUE, num |-> 0]]

TopFrame == frames[Len(frames)]

Callers == SubSeq(frames, 1, Len(frames) - 1)

\* the running function calls callee and goes on at pc f.pc when it returns
Push(f, callee) == Append([frames EXCEPT ![Len(frames)] = f], callee)

Goto(f) ==
    /\ frames' = [frames EXCEPT ![Len(frames)] = f]
    /\ steps' = steps + 1
    /\ UNCHANGED <<ret, result>>

CallAndGoto(f, callee) ==
    /\ frames' = Push(f, callee)
    /\ steps' = steps + 1
    /\ UNCHANGED <<ret, result>>

\* return v to the caller
ReturnValue(v) ==
    /\ frames' = Callers
    /\ ret' = v
    /\ steps' = steps + 1
    /\ result' = IF Callers = <<>> THEN Returned(v.tree[1], 0) ELSE result

\* raise: no function in progress catches anything
RaiseError(e) ==
    /\ frames' = <<>>
    /\ ret' = ret
    /\ steps' = steps + 1
    /\ result' = Raised(e, [path |-> <<>>, newick |-> TopFrame.arg], 0)

\* current_end += 1
advance(current_end) == current_end + 1

\* faulty variant, kept for comparison: the search resumes at the delimiter
\* found, not past it
past_same(position) == position

\* the offset just past an opener or a closer found
past(position) == position + 1

\* nodes_str[next_node_end+1:].lstrip(), less one leading comma
rest_of(nodes_str, next_node_end) ==
    LET rest == lstrip(SliceFrom(nodes_str, next_node_end + 1))
    IN  IF startswith(rest, ",") THEN SliceFrom(rest, 1) ELSE rest

InitSteps ==
    /\ newick \in StringsOver(StepAlphabet, MaxStep) \cup Samples
    /\ feature_parser \in {"_simple_feature", "strict_feature"}
    /\ start = 0
    /\ pair = PARENS
    /\ called = "none"
    /\ out = NoOut
    /\ stack = <<>>
    /\ log = <<>>
    /\ result = NoResult
    /\ frames = <<>>
    /\ ret = IntValue(0)
    /\ steps = 0

\* parse_newick(newick, ...): the terminator test and the call of
\* parse_newick_subtree
EnterParseNewick ==
    /\ called = "none"
    /\ called' = "parse_newick"
    /\ IF ~has_terminator(newick)
       THEN /\ result' = Raised("FormatError", Frame(newick, <<>>), 0)
            /\ frames' = frames
       ELSE /\ frames' = <<Call("parse_newick_subtree", DropLast(newick), 0, PARENS)>>
            /\ result' = result
    /\ steps' = steps + 1
    /\ UNCHANGED <<newick, start, pair, out, parser_vars_but_result, ret>>

\* parse_newick_subtree(newick, ...)
EnterParseNewickSubtree ==
    /\ called = "none"
    /\ called' = "parse_newick_subtree"
    /\ frames' = <<Call("parse_newick_subtree", newick, 0, PARENS)>>
    /\ steps' = steps + 1
    /\ UNCHANGED <<newick, start, pair, out, parser_vars, ret>>

\* one statement of _find_closing
StepFindClosing ==
    /\ frames # <<>>
    /\ TopFrame.fn = "_find_closing"
    /\ LET f == TopFrame
           next_closing == index(f.s, f.pr[2], f.i)
           next_opening == find(f.s, f.pr[1], f.i)
       IN  IF f.pc = "begin"
           THEN IF ~next_closing.ok THEN RaiseError("ValueError")
                ELSE IF next_opening = 0 - 1 \/ next_closing.val < next_opening
                THEN ReturnValue(IntValue(next_closing.val))
                ELSE CallAndGoto([f EXCEPT !.pc = "skip"],
                                 Call("_find_closing", f.s, past(next_opening), f.pr))
           ELSE IF f.pc = "skip"
           THEN CallAndGoto([f EXCEPT !.pc = "rest"],
                            Call("_find_closing", f.s, past(ret.int), f.pr))
           ELSE ReturnValue(ret)
    /\ UNCHANGED <<newick, start, pair, called, out, parser_vars_but_result>>

\* one statement of _next_node_end
StepNextNodeEnd ==
    /\ frames # <<>>
    /\ TopFrame.fn = "_next_node_end"
    /\ LET f == TopFrame
           nodes_str == strip(f.arg)
       IN  IF f.pc = "begin"
           THEN IF startswith(nodes_str, "(")
                THEN CallAndGoto([f EXCEPT !.s = nodes_str, !.i = 0, !.pc = "skipped"],
                                 Call("_find_closing", nodes_str, 1, PARENS))
                ELSE Goto([f EXCEPT !.s = nodes_str, !.i = 0, !.pc = "loop"])
           ELSE IF f.pc \in {"skipped", "jumped"}
           THEN Goto([f EXCEPT !.i = ret.int, !.pc = "loop"])
           ELSE IF ~(f.i < Len(f.s)) THEN ReturnValue(IntValue(Len(f.s) - 1))
           ELSE IF At(f.s, f.i) \in {"(", "["}
           THEN CallAndGoto([f EXCEPT !.pc = "jumped"],
                            Call("_find_closing", f.s, f.i + 1,
                                 grouping(At(f.s, f.i))))
           ELSE IF At(f.s, f.i) = "," THEN ReturnValue(IntValue(f.i - 1))
           ELSE Goto([f EXCEPT !.i = advance(f.i)])
    /\ UNCHANGED <<newick, start, pair, called, out, parser_vars_but_result>>

\* one statement of _split_nodes
StepSplitNodes ==
    /\ frames # <<>>
    /\ TopFrame.fn = "_split_nodes"
    /\ LET f == TopFrame
           nodes_str == strip(f.arg)
       IN  IF f.pc = "begin"
           THEN IF nodes_str = <<>> THEN ReturnValue(ListValue(<<>>))
                ELSE IF nodes_str = <<",">> THEN ReturnValue(ListValue(<<<<>>, <<>>>>))
                ELSE IF startswith(nodes_str, ",")
                THEN CallAndGoto([f EXCEPT !.s = nodes_str, !.pc = "after_leading"],
                                 Call("_split_nodes", SliceFrom(nodes_str, 1), 0, PARENS))
                ELSE IF endswith(nodes_str, ",")
                THEN CallAndGoto([f EXCEPT !.s = nodes_str, !.pc = "after_trailing"],
                                 Call("_split_nodes", DropLast(nodes_str), 0, PARENS))
                ELSE CallAndGoto([f EXCEPT !.s = nodes_str, !.pc = "after_end"],
                                 Call("_next_node_end", nodes_str, 0, PARENS))
           ELSE IF f.pc = "after_leading"
           THEN ReturnValue(ListValue(<<<<>>>> \o ret.list))
           ELSE IF f.pc = "after_trailing"
           THEN ReturnValue(ListValue(ret.list \o <<<<>>>>))
           ELSE IF f.pc = "after_end"
           THEN CallAndGoto([f EXCEPT !.acc = <<Slice(f.s, 0, ret.int + 1)>>,
                                      !.pc = "after_rest"],
                            Call("_split_nodes", rest_of(f.s, ret.int), 0, PARENS))
           ELSE ReturnValue(ListValue(f.acc \o ret.list))
    /\ UNCHANGED <<newick, start, pair, called, out, parser_vars_but_result>>

\* one statement of parse_newick_subtree (those of _parts_of_subtree included)
StepParseNewickSubtree ==
    /\ frames # <<>>
    /\ TopFrame.fn = "parse_newick_subtree"
    /\ LET f == TopFrame
           nw == strip(f.arg)
       IN  IF f.pc = "begin"
           THEN IF startswith(nw, "(")
                THEN CallAndGoto([f EXCEPT !.s = nw, !.pc = "children_end"],
                                 Call("_find_closing", nw, 1, PARENS))
                ELSE CallAndGoto([f EXCEPT !.s = nw, !.pc = "split",
                                           !.parts = fields_of(nw, FALSE, 0)],
                                 Call("_split_nodes", <<>>, 0, PARENS))
           ELSE IF f.pc = "children_end"
           THEN CallAndGoto([f EXCEPT !.pc = "split",
                                      !.parts = fields_of(f.s, TRUE, ret.int)],
                            Call("_split_nodes",
                                 fields_of(f.s, TRUE, ret.int).children,
                                 0, PARENS))
           ELSE IF f.pc = "split"
           THEN Goto([f EXCEPT !.acc = ret.list, !.pc = "children"])
           ELSE IF f.pc = "children" /\ f.acc # <<>>
           THEN CallAndGoto([f EXCEPT !.acc = Tail(f.acc), !.pc = "child"],
                            Call("parse_newick_subtree", Head(f.acc), 0, PARENS))
           ELSE IF f.pc = "child"
           THEN Goto([f EXCEPT !.kids = Append(f.kids, ret.tree[1]),
                            !.pc = "children"])
           ELSE IF f.pc = "children"
           THEN LET r == call_feature_parser(feature_parser, f.parts.comment)
                IN  IF ~r.ok THEN RaiseError("feature_parser")
                    ELSE Goto([f EXCEPT !.feat = r.val, !.pc = "distance"])
           ELSE IF f.pc = "distance"
           THEN LET r == _simple_distance(f.parts.length)
                IN  IF ~r.ok THEN RaiseError("distance_parser")
                    ELSE Goto([f EXCEPT !.dist = r.val, !.pc = "aggregate"])
           ELSE ReturnValue(TreeValue(aggregator(f.parts.label, f.kids, f.dist,
                                                f.feat)))
    /\ UNCHANGED <<newick, start, pair, called, out, parser_vars_but_result>>

NextSteps ==
    \/ EnterParseNewick
    \/ EnterParseNewickSubtree
    \/ StepFindClosing
    \/ StepNextNodeEnd
    \/ StepSplitNodes
    \/ StepParseNewickSubtree

SpecSteps == InitSteps /\ [][NextSteps]_vars

(***************************************************************************)
(* What the claims speak of                                                *)
(***************************************************************************)
IsPrefix(p, q) == Len(p) <= Len(q) /\ SubSeq(q, 1, Len(p)) = p

IsProperPrefix(p, q) == Len(p) < Len(q) /\ IsPrefix(p, q)

\* the text parse_newick_subtree is first called with
RootText == IF called = "parse_newick" THEN DropLast(newick) ELSE newick

Finished == called # "none" /\ stack = <<>>

AggIdx == {i \in 1..Len(log) : log[i].fn = "aggregator"}

\* the sibling slots of the children block of a node text
SlotsOf(text) == _split_nodes(_parts_of_subtree(strip(text)).children)

\* the nodes of a text, as paths from it: the text itself and, for every
\* sibling slot of its children block, the nodes of that slot
RECURSIVE NodePaths(_)
NodePaths(text) ==
    LET slots == SlotsOf(text)
    IN  IF ~_parts_of_subtree(strip(text)).ok \/ ~slots.ok THEN {<<>>}
        ELSE {<<>>} \cup
             UNION {{<<k>> \o q : q \in NodePaths(slots.val[k])} :
                    k \in 1..Len(slots.val)}

\* the number of c in s[a:b]
Count(s, c, a, b) == Cardinality({i \in a..(b - 1) : At(s, i) = c})

\* t starts with an opening parenthesis that no closing parenthesis balances:
\* the nesting depth after it never returns to zero
UnclosedLeading(t) ==
    /\ startswith(t, "(")
    /\ ~\E i \in 1..(Len(t) - 1) :
           /\ At(t, i) = ")"
           /\ Count(t, "(", 1, i) = Count(t, ")", 1, i)

\* s holds an opener with no closer anywhere after it
Unclosed(s, pr) ==
    \E i \in 1..Len(s) : s[i] = pr[1] /\ \A j \in (i + 1)..Len(s) : s[j] # pr[2]

(***************************************************************************)
(* C1: the aggregator is called once per node, in post-order               *)
(***************************************************************************)
\* C1: no node is aggregated twice; when a node is aggregated, the nodes
\* aggregated before it below it are exactly its descendants, and none follows;
\* a call that returns has aggregated exactly the nodes of its text.
C1_PostOrder ==
    /\ \A i, j \in AggIdx : i # j => log[i].path # log[j].path
    /\ \A i, j \in AggIdx : IsProperPrefix(log[j].path, log[i].path) => i < j
    /\ \A j \in AggIdx :
          {log[i].path : i \in {k \in AggIdx :
                                  k < j /\ IsProperPrefix(log[j].path, log[k].path)}}
          = {log[j].path \o q : q \in NodePaths(log[j].text) \ {<<>>}}
    /\ result.status = "ok" =>
          {log[i].path : i \in AggIdx} = NodePaths(RootText)

C1_Witness ==
    /\ result.status = "ok"
    /\ Cardinality(AggIdx) >= 5
    /\ \E i \in AggIdx : Len(log[i].path) = 2

(***************************************************************************)
(* C2: a text without the trailing terminator is not parsed at all         *)
(***************************************************************************)
\* C2: once parse_newick has been called on a text that does not end with ";",
\* the call has failed with the format error, no callback has been called and
\* no tree is returned.
C2_NoTerminator ==
    (called = "parse_newick" /\ ~endswith(newick, ";")) =>
        /\ result.status = "error"
        /\ result.error = "FormatError"
        /\ result.tree = <<>>
        /\ log = <<>>
        /\ stack = <<>>

C2_Witness ==
    /\ called = "parse_newick"
    /\ newick = <<";", " ">>
    /\ result.error = "FormatError"

(***************************************************************************)
(* C3: unclosed delimiters                                                 *)
(***************************************************************************)
\* C3 as claimed: a call on a text that holds an opening parenthesis or bracket
\* with no closing one after it returns no tree.
C3_EveryUnclosedFails ==
    (Finished /\ (Unclosed(RootText, PARENS) \/ Unclosed(RootText, BRACKETS))) =>
        result.status # "ok"

\* the node text t is one the scanner is bound to fail on: its leading
\* parenthesis is unclosed, or its children block has no parenthesis and holds
\* an unclosed bracket
ScannerMustFail(t) ==
    \/ UnclosedLeading(t)
    \/ LET parts == _parts_of_subtree(t)
       IN  /\ parts.ok
           /\ ~contains(parts.children, "(")
           /\ Unclosed(parts.children, BRACKETS)

\* C3 amended: the step that decomposes such a node raises the ValueError of
\* the scanner: every frame is left, no callback is called for the node and no
\* tree is returned.
C3_ScannedUnclosedFails ==
    [][(stack # <<>> /\ Top.pc = "parts" /\ ScannerMustFail(strip(Top.newick))) =>
          /\ result'.status = "error"
          /\ result'.error = "ValueError"
          /\ result'.tree = <<>>
          /\ result'.at = Top.path
          /\ stack' = <<>>
          /\ log' = log]_vars

C3_Witness ==
    /\ result.status = "error"
    /\ result.error = "ValueError"
    /\ result.at # <<>>
    /\ ScannerMustFail(strip(result.text))
    /\ log # <<>>

(***************************************************************************)
(* C4: all or nothing                                                      *)
(***************************************************************************)
DecomposesOk(text) == _parts_of_subtree(strip(text)).ok /\ SlotsOf(text).ok

\* C4: a failed call has left every frame and returns no tree; no callback was
\* called after the failure; a callback that raised is the last one called and
\* its error is the call's error; the scanner's error comes from a node whose
\* decomposition fails, and no node past its decomposition fails to decompose;
\* the aggregator was never called for the failing node or an ancestor of it.
C4_AllOrNothing ==
    /\ result.status = "error" =>
          /\ stack = <<>>
          /\ result.tree = <<>>
          /\ Len(log) = result.calls
          /\ \A i \in AggIdx : ~IsPrefix(log[i].path, result.at)
    /\ \A i \in 1..Len(log) :
          ~log[i].ok =>
              /\ i = Len(log)
              /\ result.status = "error"
              /\ result.error = log[i].fn
              /\ result.at = log[i].path
    /\ (result.status = "error"
            /\ result.error \in {"feature_parser", "distance_parser"}) =>
          (log # <<>> /\ ~log[Len(log)].ok)
    /\ (result.status = "error" /\ result.error = "ValueError") =>
          ~DecomposesOk(result.text)
    /\ \A k \in 1..Len(stack) :
          stack[k].pc # "parts" => DecomposesOk(stack[k].newick)
    /\ \A i \in 1..Len(log) : DecomposesOk(log[i].text)

C4_Witness ==
    /\ result.status = "error"
    /\ result.error = "distance_parser"
    /\ Len(result.at) >= 1
    /\ AggIdx # {}

(***************************************************************************)
(* C5: the children handed to the aggregator                               *)
(***************************************************************************)
TreeOf(e) == aggregator(e.arg[1], e.arg[2], e.arg[3], e.arg[4])

\* C5: the children of every aggregator call are, slot by slot and in the
\* order of the text, the trees returned for the sibling slots of the node's
\* children block, an empty slot being parsed from the empty text; a node whose
\* text does not start with "(" has no children.
C5_Children ==
    \A j \in AggIdx :
        LET e == log[j]
            slots == SlotsOf(e.text).val
            kids == e.arg[2]
        IN  /\ Len(kids) = Len(slots)
            /\ \A k \in 1..Len(slots) :
                  \E i \in AggIdx :
                      /\ i < j
                      /\ log[i].path = Append(e.path, k)
                      /\ log[i].text = slots[k]
                      /\ kids[k] = TreeOf(log[i])
            /\ ~startswith(strip(e.text), "(") => kids = <<>>

C5_Witness ==
    \E j \in AggIdx :
        LET slots == SlotsOf(log[j].text).val
        IN  /\ Len(slots) = 3
            /\ slots[2] = <<>>
            /\ slots[1] # <<>>
            /\ Len(log[j].arg[2]) = 3

(***************************************************************************)
(* C6: the order of the two parsers                                        *)
(***************************************************************************)
EventsOf(fn, path) == {i \in 1..Len(log) : log[i].fn = fn /\ log[i].path = path}

\* both texts of the node the call failed in are rejected by their parsers
BothRejected ==
    LET parts == _parts_of_subtree(strip(result.text))
    IN  /\ result.status = "error"
        /\ result.error \in {"feature_parser", "distance_parser"}
        /\ ~_simple_distance(parts.length).ok
        /\ ~call_feature_parser(feature_parser, parts.comment).ok

\* C6 as claimed: for every node the distance parser is called before the
\* feature parser, and when both reject the error is the distance parser's and
\* the feature parser is not called for the node.
C6_DistanceFirst ==
    /\ \A i \in 1..Len(log) :
          log[i].fn = "feature_parser" =>
              \E k \in EventsOf("distance_parser", log[i].path) : k < i
    /\ BothRejected =>
          /\ result.error = "distance_parser"
          /\ EventsOf("feature_parser", result.at) = {}

\* C6 amended: for every node the feature parser is called before the distance
\* parser, and when both reject the error is the feature parser's and the
\* distance parser is not called for the node.
C6_FeatureFirst ==
    /\ \A i \in 1..Len(log) :
          log[i].fn = "distance_parser" =>
              \E k \in EventsOf("feature_parser", log[i].path) : k < i
    /\ BothRejected =>
          /\ result.error = "feature_parser"
          /\ EventsOf("distance_parser", result.at) = {}

C6_Witness ==
    /\ BothRejected
    /\ result.error = "feature_parser"
    /\ result.at # <<>>

(***************************************************************************)
(* C7: the number of entries SiblingSplitter returns                       *)
(***************************************************************************)
\* the openers of s[i..] still open after stk, closed in the order they opened
RECURSIVE NestedFrom(_, _, _)
NestedFrom(s, i, stk) ==
    IF i > Len(s) THEN stk = <<>>
    ELSE IF s[i] \in {"(", "["} THEN NestedFrom(s, i + 1, Append(stk, s[i]))
    ELSE IF s[i] \in {")", "]"}
    THEN /\ stk # <<>>
         /\ stk[Len(stk)] = (IF s[i] = ")" THEN "(" ELSE "[")
         /\ NestedFrom(s, i + 1, DropLast(stk))
    ELSE NestedFrom(s, i + 1, stk)

\* the parentheses and brackets of s are balanced and properly nested
ProperlyNested(s) == NestedFrom(s, 1, <<>>)

\* the number of openers minus the number of closers in s[0:i]
DepthAt(s, i) ==
    Cardinality({j \in 1..i : s[j] \in {"(", "["}})
        - Cardinality({j \in 1..i : s[j] \in {")", "]"}})

\* the commas of s that no parenthesis or bracket pair encloses
TopCommas(s) == Cardinality({i \in 1..Len(s) : s[i] = "," /\ DepthAt(s, i) = 0})

\* C7 as claimed: every non-empty properly nested fragment, the fragments of
\* whitespace alone included, is split in one entry more than it has top-level
\* commas.
C7_NonEmptyCount ==
    (called = "_split_nodes" /\ newick # <<>> /\ ProperlyNested(newick)) =>
        (out.ok /\ Len(out.val) = TopCommas(newick) + 1)

\* C7 amended: every properly nested fragment that is not empty once trimmed
\* is split in one entry more than it has top-level commas; a fragment of
\* whitespace alone is split in no entry at all.
C7_TrimmedCount ==
    /\ (called = "_split_nodes" /\ strip(newick) # <<>> /\ ProperlyNested(newick)) =>
          (out.ok /\ Len(out.val) = TopCommas(newick) + 1)
    /\ (called = "_split_nodes" /\ strip(newick) = <<>>) =>
          (out.ok /\ out.val = <<>>)

C7_Witness ==
    /\ called = "_split_nodes"
    /\ ProperlyNested(newick)
    /\ TopCommas(newick) = 2
    /\ Count(newick, ",", 0, Len(newick)) = 3
    /\ endswith(newick, ",")
    /\ Len(out.val) = 3

(***************************************************************************)
(* C8: the closer DelimiterScanner returns                                 *)
(***************************************************************************)
\* the delimiters pr of s are balanced
BalancedFor(s, pr) ==
    /\ \A i \in 0..Len(s) : Count(s, pr[1], 0, i) >= Count(s, pr[2], 0, i)
    /\ Count(s, pr[1], 0, Len(s)) = Count(s, pr[2], 0, Len(s))

Remainder(nw) ==
    IF startswith(nw, "(")
    THEN SliceFrom(nw, _find_closing_parenthesis(nw).val + 1)
    ELSE nw

\* C9: for every trimmed node text, the children block is empty or the text
\* between the leading parenthesis and its balancing closer, the distance text
\* is what follows the separating colon, and the comment text is what lies
\* between the comment's opening bracket and a closing bracket of it: it holds
\* neither of the two nor any text after the closing one.
C9_Fields ==
    (called = "_parts_of_subtree" /\ newick = strip(newick) /\ out.ok) =>
        LET rem == Remainder(newick)
            b == find(rem, "[", 0)
            head == IF b >= 0 THEN Slice(rem, 0, b) ELSE rem
            c == find(head, ":", 0)
        IN  /\ IF startswith(newick, "(")
               THEN \E e \in 1..(Len(newick) - 1) :
                       /\ At(newick, e) = ")"
                       /\ Count(newick, "(", 1, e) = Count(newick, ")", 1, e)
                       /\ \A j \in 1..(e - 1) :
                             Count(newick, "(", 1, j + 1)
                                 >= Count(newick, ")", 1, j + 1)
                       /\ out.children = Slice(newick, 1, e)
               ELSE out.children = <<>>
            /\ IF c >= 0
               THEN /\ out.length = SliceFrom(head, c + 1)
                    /\ out.label = strip(Slice(head, 0, c))
               ELSE /\ out.length = <<>>
                    /\ out.label = strip(head)
            /\ IF b >= 0
               THEN (\E k \in (b + 1)..(Len(rem) - 1) : At(rem, k) = "]") =>
                        \E k \in (b + 1)..(Len(rem) - 1) :
                            /\ At(rem, k) = "]"
                            /\ out.comment = Slice(rem, b + 1, k)
               ELSE out.comment = <<>>

(***************************************************************************)
(* C10: termination                                                        *)
(***************************************************************************)
StepsFinished == called # "none" /\ frames = <<>>

\* the step is a call made by the running function
IsCall == frames # <<>> /\ Len(frames') = Len(frames) + 1

Callee == frames'[Len(frames')]

\* every step of the functions makes the progress that bounds them
Progress ==
    /\ (IsCall /\ TopFrame.fn = "_find_closing" /\ Callee.fn = "_find_closing") =>
          Callee.i > TopFrame.i
    /\ (/\ Len(frames') = Len(frames)
        /\ frames # <<>>
        /\ TopFrame.fn = "_next_node_end"
        /\ TopFrame.pc \in {"loop", "jumped"}) =>
          frames'[Len(frames)].i > TopFrame.i
    /\ (IsCall /\ TopFrame.fn = "_split_nodes" /\ Callee.fn = "_split_nodes") =>
          /\ Len(Callee.arg) < Len(strip(TopFrame.arg))
          /\ frames'[Len(frames)].pc = "after_rest" =>
                frames'[Len(frames)].acc[1] # <<>>
    /\ (IsCall /\ TopFrame.fn = "parse_newick_subtree"
               /\ Callee.fn = "parse_newick_subtree") =>
          Len(Callee.arg) < Len(strip(TopFrame.arg))

\* some action of the step machine can be taken: no call is yet made, or the
\* running frame is one of a function that has a next statement
CanStep ==
    \/ called = "none"
    \/ /\ frames # <<>>
       /\ TopFrame.fn \in {"_find_closing", "_next_node_end", "_split_nodes",
                           "parse_newick_subtree"}

\* the longest run the statements of a call on text can make
StepBound(text) == 8 * (Len(text) + 1) * (Len(text) + 1)

\* C10: every recursive call of _find_closing starts at a larger offset, every
\* iteration of the loop of _next_node_end ends at a larger index, every
\* recursive call of _split_nodes and of parse_newick_subtree is on a shorter
\* string and the first sibling split off is not empty; and every call ends:
\* it executes a bounded number of statements, a call that has not ended has
\* a next one to execute, and one that has ended returned the tree or raised
\* the error the functions define.
C10_Terminates ==
    /\ [][Progress]_vars
    /\ [](steps <= StepBound(newick))
    /\ [](~StepsFinished => CanStep)
    /\ [](StepsFinished =>
            /\ result.status = (IF Expected.ok THEN "ok" ELSE "error")
            /\ result.error = Expected.error
            /\ Expected.ok => result.tree = <<Expected.val>>)

C10_Witness ==
    /\ Len(frames) >= 5
    /\ TopFrame.fn = "_find_closing"
    /\ TopFrame.i >= 2
    /\ \E k \in 1..Len(frames) : frames[k].fn = "_next_node_end" /\ frames[k].pc = "jumped"
    /\ \E k \in 2..Len(frames) : frames[k].fn = "parse_newick_subtree"

====
